---- MODULE Spec2Model ----
(***************************************************************************)
(* Model of activitysim/core/pathbuilder_cache.py: the canonical uid       *)
(* indexing (TapTapUidCalculator) and the cache store (TVPBCache) with its *)
(* three on-disk artifacts and the shared data buffer.                     *)
(*                                                                         *)
(* Encoding.  A pandas Series / numpy array is a sequence.  Python None is *)
(* the empty sequence and a present value x is <<x>> (None, Some).  A      *)
(* float cell is an integer; NaN is the distinguished value NaN, which     *)
(* every arithmetic operation propagates.  A raised exception is recorded  *)
(* in call.err; the assignments made before the raise are kept, as they    *)
(* are in Python.                                                          *)
(***************************************************************************)
EXTENDS Integers, Sequences, FiniteSets, TLC

VARIABLES
    segmentation,   \* uid_calculator.segmentation: ordered name -> values
    tap_ids,        \* uid_calculator.tap_ids
    set_names,      \* uid_calculator.set_names
    settings,       \* network_los: rebuild_tvpb_cache, multiprocess(), trace_tvpb_cache_as_csv
    is_open,        \* TVPBCache.is_open, per store instance
    is_changed,     \* TVPBCache.is_changed, per store instance
    _df,            \* TVPBCache._df, per store instance
    disk,           \* the files cache_path(STATIC | DYNAMIC | TRACE)
    data_buffers,   \* the injectable 'data_buffers' entry of cache_tag
    buffer_views,   \* the stores whose _df is a no-copy DataFrame over that buffer
    call            \* the last call made: operation, arguments, outcome

vars == <<segmentation, tap_ids, set_names, settings, is_open, is_changed, _df,
          disk, data_buffers, buffer_views, call>>

----------------------------------------------------------------------------
(* Bounds of the model *)

MaxAttrs == 2       \* segmentation attributes
MaxCard == 2        \* values per segmentation attribute
MaxTaps == 2        \* access points
MaxSets == 2        \* utility sets (columns)

----------------------------------------------------------------------------
(* Generic helpers *)

None == <<>>
Some(x) == <<x>>

NaN == -1

Add(a, b) == IF a = NaN \/ b = NaN THEN NaN ELSE a + b
Mul(a, b) == IF a = NaN \/ b = NaN THEN NaN ELSE a * b

Min(a, b) == IF a < b THEN a ELSE b

Range(s) == {s[i] : i \in 1..Len(s)}

IsInjective(s) == \A i, j \in 1..Len(s) : s[i] = s[j] => i = j

RECURSIVE ConcatAll(_)
ConcatAll(ss) == IF Len(ss) = 0 THEN <<>> ELSE Head(ss) \o ConcatAll(Tail(ss))

\* itertools.product(*iterables): lexicographic, the rightmost iterable fastest
RECURSIVE product(_)
product(iterables) ==
    IF Len(iterables) = 0 THEN << <<>> >>
    ELSE LET rest == product(Tail(iterables))
             first == Head(iterables)
         IN ConcatAll([i \in 1..Len(first) |->
                          [j \in 1..Len(rest) |-> <<first[i]>> \o rest[j]]])

----------------------------------------------------------------------------
(* Configurations the uid calculator is constructed from *)

AttrPool ==
    << [name |-> "demographic_segment", values |-> <<"0", "1", "2">>],
       [name |-> "tod", values |-> <<"AM", "MD", "EA">>],
       [name |-> "access_mode", values |-> <<"walk", "drive", "bike">>] >>

TapPool == <<10, 20, 30, 40>>

\* values outside every configured domain
UnknownValue == "??"
UnknownTap == TapPool[Len(TapPool)]

\* all sequences of length n over 1..m
RECURSIVE Choices(_, _)
Choices(n, m) ==
    IF n = 0 THEN { <<>> }
    ELSE { Append(c, k) : c \in Choices(n - 1, m), k \in 1..m }

Increasing(s) == \A i \in 1..(Len(s) - 1) : s[i] < s[i + 1]

Reverse(s) == [i \in 1..Len(s) |-> s[Len(s) + 1 - i]]

\* up to MaxAttrs attributes of the pool, each with its first 1..MaxCard values
Segmentations ==
    UNION { { [i \in 1..n |-> [name |-> AttrPool[c[i]].name,
                               values |-> SubSeq(AttrPool[c[i]].values, 1, k[i])]]
              : c \in {x \in Choices(n, Len(AttrPool)) : Increasing(x)},
                k \in Choices(n, Min(MaxCard, Len(AttrPool[1].values))) }
            : n \in 0..Min(MaxAttrs, Len(AttrPool)) }

\* the first 1..MaxTaps taps of the pool, in file order or reversed
TapLists ==
    UNION { { SubSeq(TapPool, 1, n), Reverse(SubSeq(TapPool, 1, n)) }
            : n \in 1..Min(MaxTaps, Len(TapPool) - 1) }

SetNames(n) == [i \in 1..n |-> "set" \o ToString(i)]

----------------------------------------------------------------------------
(* TapTapUidCalculator *)

\* line 383: list(itertools.product(*list(self.segmentation.values())))
attribute_combination_tuples ==
    product([i \in 1..Len(segmentation) |-> segmentation[i].values])

\* lines 388-393: one ordinalizer per segmentation attribute, then btap, atap.
\* pd.Series(range(len(v)), index=v) is kept as its index v: the value at the
\* p-th index entry (from 1) is p - 1.
ordinalizers ==
    [i \in 1..Len(segmentation) |->
        [name |-> segmentation[i].name, index |-> segmentation[i].values]]
    \o << [name |-> "btap", index |-> tap_ids],
          [name |-> "atap", index |-> tap_ids] >>

\* Series.max() of range(len(v))
SeriesMax(ordinalizer) ==
    IF Len(ordinalizer.index) = 0 THEN NaN ELSE Len(ordinalizer.index) - 1

Has(ordinalizer, value) ==
    \E p \in 1..Len(ordinalizer.index) : ordinalizer.index[p] = value

\* ordinalizer.at[value] for a value of the index
At(ordinalizer, value) ==
    (CHOOSE p \in 1..Len(ordinalizer.index) : ordinalizer.index[p] = value) - 1

\* Series.map(ordinalizer) on one element: NaN for a value not in the index
Map(ordinalizer, value) ==
    IF Has(ordinalizer, value) THEN At(ordinalizer, value) ELSE NaN

OrdinalizerCardinalityOffByOne(ordinalizer) == SeriesMax(ordinalizer)

\* line 445: cardinality = ordinalizer.max() + 1
OrdinalizerCardinality(ordinalizer) == Add(SeriesMax(ordinalizer), 1)

UidStepSwapped(uid, cardinality, ordinal) == Add(uid, Mul(cardinality, ordinal))

\* lines 449, 453: uid * cardinality + ordinal
UidStep(uid, cardinality, ordinal) == Add(Mul(uid, cardinality), ordinal)

\* lines 443-453: the loop over self.ordinalizers.items(), from the k-th on.
\* df is [columns |-> set of names, rows |-> sequence of rows].
RECURSIVE UidLoop(_, _, _, _)
UidLoop(k, uid, df, scalar_attributes) ==
    IF k > Len(ordinalizers) THEN [err |-> "ok", uid |-> uid]
    ELSE LET ordinalizer == ordinalizers[k]
             name == ordinalizer.name
             cardinality == OrdinalizerCardinality(ordinalizer)
         IN IF name \in df.columns
            THEN UidLoop(k + 1,
                         [r \in 1..Len(df.rows) |->
                             UidStep(uid[r], cardinality,
                                     Map(ordinalizer, df.rows[r][name]))],
                         df, scalar_attributes)
            ELSE IF name \notin DOMAIN scalar_attributes
            THEN [err |-> "AssertionError", uid |-> <<>>]
            ELSE IF ~Has(ordinalizer, scalar_attributes[name])
            THEN [err |-> "KeyError", uid |-> <<>>]
            ELSE UidLoop(k + 1,
                         [r \in 1..Len(df.rows) |->
                             UidStep(uid[r], cardinality,
                                     At(ordinalizer, scalar_attributes[name]))],
                         df, scalar_attributes)

\* lines 425-455
get_unique_ids(df, scalar_attributes) ==
    UidLoop(1, [r \in 1..Len(df.rows) |-> 0], df, scalar_attributes)

\* lines 401-408
fully_populated_shape ==
    LET num_combinations == Len(attribute_combination_tuples)
        num_orig_zones == Len(tap_ids)
        num_dest_zones == Len(tap_ids)
        num_rows == num_combinations * num_orig_zones * num_dest_zones
        num_sets == Len(set_names)
    IN <<num_rows, num_sets>>

\* lines 419-423: np.arange(num_combinations * num_orig_zones * num_dest_zones)
fully_populated_uids ==
    [i \in 1..(Len(attribute_combination_tuples) * Len(tap_ids) * Len(tap_ids)) |-> i - 1]

\* lines 494-505: the dicts yielded, in order
each_scalar_attribute_combination ==
    [c \in 1..Len(attribute_combination_tuples) |->
        [name \in {segmentation[i].name : i \in 1..Len(segmentation)} |->
            attribute_combination_tuples[c][
                CHOOSE i \in 1..Len(segmentation) : segmentation[i].name = name]]]

----------------------------------------------------------------------------
(* Calls of get_unique_ids *)

AllNames == {ordinalizers[k].name : k \in 1..Len(ordinalizers)}
TapNames == {"btap", "atap"}

\* the full Cartesian product segment combination x btap x atap, as tuples
FullProduct == product([k \in 1..Len(ordinalizers) |-> ordinalizers[k].index])

\* a tuple of attribute values, in ordinalizer order, as a mapping by name
ByName(tuple, names) ==
    [name \in names |->
        tuple[CHOOSE k \in 1..Len(ordinalizers) : ordinalizers[k].name = name]]

\* a dataframe with the given columns, one row per tuple
DataFrame(tuples, columns) ==
    [columns |-> columns,
     rows |-> [r \in 1..Len(tuples) |-> ByName(tuples[r], columns)]]

Unknown(k) == IF ordinalizers[k].name \in TapNames THEN UnknownTap ELSE UnknownValue

\* a call of get_unique_ids that has not run yet
Pending(df, scalar_attributes) ==
    [op |-> "get_unique_ids", df |-> df, scalar_attributes |-> scalar_attributes,
     err |-> "pending", uid |-> <<>>]

\* The arguments get_unique_ids is called with: a dataframe of rows of the
\* product (one row, or every row of a segment combination or of the whole
\* product), the segment attributes as columns or as scalar attributes; and
\* the first or the last row of the product with one value outside its
\* domain, or with one scalar attribute missing
GetUniqueIdsArguments ==
    LET rows == FullProduct
        ends == {1, Len(rows)}
    IN \E columns \in {AllNames, TapNames} :
       \/ \E i \in 1..Len(rows) :
             call = Pending(DataFrame(<<rows[i]>>, columns),
                            ByName(rows[i], AllNames \ columns))
       \/ /\ columns = AllNames
          /\ call = Pending(DataFrame(rows, AllNames), <<>>)
       \/ /\ columns = TapNames
          /\ \E c \in 1..Len(attribute_combination_tuples) :
                LET tuples == SelectSeq(rows,
                                  LAMBDA t : SubSeq(t, 1, Len(segmentation))
                                             = attribute_combination_tuples[c])
                IN call = Pending(DataFrame(tuples, TapNames),
                                  ByName(tuples[1], AllNames \ TapNames))
       \/ \E i \in ends, k \in 1..Len(ordinalizers) :
             LET tuple == [rows[i] EXCEPT ![k] = Unknown(k)]
             IN call = Pending(DataFrame(<<tuple>>, columns),
                               ByName(tuple, AllNames \ columns))
       \/ \E i \in ends, k \in 1..Len(segmentation) :
             call = Pending(DataFrame(<<rows[i]>>, columns),
                            ByName(rows[i],
                                   (AllNames \ columns) \ {ordinalizers[k].name}))

\* lines 425-455: the call returns its uids or raises
GetUniqueIds ==
    /\ call.op = "get_unique_ids"
    /\ call.err = "pending"
    /\ LET ret == get_unique_ids(call.df, call.scalar_attributes)
       IN call' = [call EXCEPT !.err = ret.err, !.uid = ret.uid]
    /\ UNCHANGED <<segmentation, tap_ids, set_names, settings, is_open,
                   is_changed, _df, disk, data_buffers,
                   buffer_views>>

----------------------------------------------------------------------------
(* Segment combinations: get_od_dataframe, get_skim_offset,
   each_scalar_attribute_combination *)

OdChoosersColumnMajor ==
    LET num_taps == Len(tap_ids)
    IN [i \in 1..(num_taps * num_taps) |->
           [btap |-> tap_ids[((i - 1) % num_taps) + 1],
            atap |-> tap_ids[((i - 1) \div num_taps) + 1]]]

\* lines 473-479: btap = np.repeat(tap_ids, num_taps), atap = np.tile(tap_ids, num_taps)
OdChoosers ==
    LET num_taps == Len(tap_ids)
    IN [i \in 1..(num_taps * num_taps) |->
           [btap |-> tap_ids[((i - 1) \div num_taps) + 1],
            atap |-> tap_ids[((i - 1) % num_taps) + 1]]]

\* lines 457-483: the dataframe's rows and its index, or the exception
get_od_dataframe(scalar_attributes) ==
    LET od_choosers_df == [columns |-> TapNames, rows |-> OdChoosers]
        ids == get_unique_ids(od_choosers_df, scalar_attributes)
    IN IF ids.err # "ok" THEN [err |-> ids.err, rows |-> <<>>, index |-> <<>>]
       ELSE IF ~IsInjective(ids.uid)
       THEN [err |-> "AssertionError", rows |-> <<>>, index |-> <<>>]
       ELSE [err |-> "ok", rows |-> OdChoosers, index |-> ids.uid]

\* lines 487-491: the loop over self.ordinalizers.items(), from the k-th on;
\* an attribute that scalar_attributes does not name is skipped
RECURSIVE SkimOffsetLoop(_, _, _)
SkimOffsetLoop(k, offset, scalar_attributes) ==
    IF k > Len(ordinalizers) THEN [err |-> "ok", offset |-> offset]
    ELSE LET ordinalizer == ordinalizers[k]
             name == ordinalizer.name
             cardinality == OrdinalizerCardinality(ordinalizer)
         IN IF name \notin DOMAIN scalar_attributes
            THEN SkimOffsetLoop(k + 1, offset, scalar_attributes)
            ELSE IF ~Has(ordinalizer, scalar_attributes[name])
            THEN [err |-> "KeyError", offset |-> NaN]
            ELSE SkimOffsetLoop(k + 1,
                   UidStep(offset, cardinality, At(ordinalizer, scalar_attributes[name])),
                   scalar_attributes)

\* lines 485-492
get_skim_offset(scalar_attributes) == SkimOffsetLoop(1, 0, scalar_attributes)

IterationResumed(consumed) == consumed

\* line 498: the for loop of a call starts at the first element of the list
\* attribute_combination_tuples, however many an earlier call has consumed
IterationStart(consumed) == 0

\* lines 494-505: the dicts one call yields until it is exhausted
Yielded(consumed) ==
    SubSeq(each_scalar_attribute_combination, IterationStart(consumed) + 1,
           Len(each_scalar_attribute_combination))

\* the scalar attributes the calls are given: a segment combination, or the
\* first or the last one with one value outside its domain or one attribute
\* missing
ScalarArguments ==
    LET combinations == each_scalar_attribute_combination
        names == {segmentation[i].name : i \in 1..Len(segmentation)}
        ends == {combinations[1], combinations[Len(combinations)]}
    IN Range(combinations)
       \cup {[c EXCEPT ![name] = UnknownValue] : c \in ends, name \in names}
       \cup {[n \in names \ {name} |-> c[n]] : c \in ends, name \in names}

\* a call that has not run yet
PendingCombinationCall ==
    \/ \E scalar_attributes \in ScalarArguments, op \in {"get_od_dataframe", "get_skim_offset"} :
          call = [op |-> op, scalar_attributes |-> scalar_attributes, err |-> "pending"]
    \/ call = [op |-> "each_scalar_attribute_combination", err |-> "pending",
               consumed |-> 0, yielded |-> <<>>, previous |-> None]

GetOdDataframe ==
    /\ call.op = "get_od_dataframe"
    /\ call.err = "pending"
    /\ LET ret == get_od_dataframe(call.scalar_attributes)
       IN call' = [op |-> call.op, scalar_attributes |-> call.scalar_attributes,
                   err |-> ret.err, rows |-> ret.rows, index |-> ret.index]
    /\ UNCHANGED <<segmentation, tap_ids, set_names, settings, is_open,
                   is_changed, _df, disk, data_buffers,
                   buffer_views>>

GetSkimOffset ==
    /\ call.op = "get_skim_offset"
    /\ call.err = "pending"
    /\ LET ret == get_skim_offset(call.scalar_attributes)
       IN call' = [op |-> call.op, scalar_attributes |-> call.scalar_attributes,
                   err |-> ret.err, offset |-> ret.offset]
    /\ UNCHANGED <<segmentation, tap_ids, set_names, settings, is_open,
                   is_changed, _df, disk, data_buffers,
                   buffer_views>>

\* lines 494-505: a call iterated to its end; it is made once and once again
EachScalarAttributeCombination ==
    /\ call.op = "each_scalar_attribute_combination"
    /\ call.previous = None
    /\ LET yielded == Yielded(call.consumed)
       IN call' = [op |-> call.op, err |-> "ok",
                   consumed |-> call.consumed + Len(yielded),
                   yielded |-> yielded,
                   previous |-> IF call.err = "pending" THEN None ELSE Some(call.yielded)]
    /\ UNCHANGED <<segmentation, tap_ids, set_names, settings, is_open,
                   is_changed, _df, disk, data_buffers,
                   buffer_views>>

----------------------------------------------------------------------------
(* Bounds of the cache store model *)

MaxTableRows == 2   \* rows the table may grow to, and rows of one extend_table

----------------------------------------------------------------------------
(* Arrays, tables and files *)

\* DTYPE_NAME = 'float32': integers up to 2^24 are exact
Float32Exact == 16777216

\* the cast of a cell to float32 (round to nearest, ties to even); the cells
\* of the model are below 2^25, where float32 holds the multiples of 2
Float32(x) ==
    IF x = NaN \/ x <= Float32Exact \/ x % 2 = 0 THEN x
    ELSE IF (x - 1) % 4 = 0 THEN x - 1 ELSE x + 1

AsFloat32(data) == [i \in 1..Len(data) |-> Float32(data[i])]

\* A table (DataFrame indexed by uid) is a sequence of [uid, values] rows.
Index(df) == [i \in 1..Len(df) |-> df[i].uid]

\* df.index.duplicated().any()
DuplicatedAny(df) == \E i, j \in 1..Len(df) : i < j /\ df[i].uid = df[j].uid

ReshapeColumnMajor(data, num_columns) ==
    LET num_rows == Len(data) \div num_columns
    IN [i \in 1..num_rows |-> [j \in 1..num_columns |-> data[(j - 1) * num_rows + i]]]

\* data.reshape((-1, num_columns)) of a flat array whose length is a multiple
\* of num_columns: row-major rows
Reshape(data, num_columns) ==
    [i \in 1..(Len(data) \div num_columns) |->
        SubSeq(data, (i - 1) * num_columns + 1, i * num_columns)]

\* the flat row-major cells of a two-dimensional array
Flatten(rows) == ConcatAll(rows)

\* lines 186-187: pd.DataFrame(data=data, columns=column_names, index=uids)
LabelRows(rows, uids) == [i \in 1..Len(rows) |-> [uid |-> uids[i], values |-> rows[i]]]

\* line 221: df.reset_index().to_feather(): the uid is the first column
ToFeather(df) == [i \in 1..Len(df) |-> <<df[i].uid>> \o df[i].values]

\* line 231: df.to_csv(): the diagnostic dump, which nothing reads back, is
\* kept as its header line
ToCsv(df) == <<"uid">> \o set_names

\* lines 164-165: pd.read_feather(), then set_index(df.columns[0])
ReadFeather(file) == [i \in 1..Len(file) |-> [uid |-> Head(file[i]), values |-> Tail(file[i])]]

----------------------------------------------------------------------------
(* TVPBCache *)

Stores == {1, 2}

num_columns == Len(set_names)

PrefersDynamicFile ==
    IF settings.multiprocess THEN "buffer"
    ELSE IF disk.dynamic # None THEN "dynamic"
    ELSE IF disk.static # None THEN "static"
    ELSE "none"

\* lines 144, 155, 162: the branch open() takes in normal mode
OpenSource ==
    IF settings.multiprocess THEN "buffer"
    ELSE IF disk.static # None THEN "static"
    ELSE IF disk.dynamic # None THEN "dynamic"
    ELSE "none"

\* lines 171-188: the flat data wrapped as the fully-populated table
WrapData(data) ==
    IF Len(data) % num_columns # 0 THEN [err |-> "ValueError", df |-> None]
    ELSE LET rows == Reshape(data, num_columns)
         IN IF Len(rows) # Len(fully_populated_uids)
            THEN [err |-> "AssertionError", df |-> None]
            ELSE [err |-> "ok", df |-> Some(LabelRows(rows, fully_populated_uids))]

\* lines 142-188: the loading of open() in normal mode; df None means that
\* self._df is not assigned
NormalLoad ==
    IF OpenSource = "buffer"
    THEN IF data_buffers = None
         THEN [err |-> "AssertionError", df |-> None, reads |-> {}]
         ELSE WrapData(data_buffers[1]) @@ [reads |-> {"buffer"}]
    ELSE IF OpenSource = "static"
    THEN WrapData(disk.static[1]) @@ [reads |-> {"static"}]
    ELSE IF OpenSource = "dynamic"
    THEN LET df == ReadFeather(disk.dynamic[1])
         IN IF DuplicatedAny(df)
            THEN [err |-> "AssertionError", df |-> None, reads |-> {"dynamic"}]
            ELSE [err |-> "ok", df |-> Some(df), reads |-> {"dynamic"}]
    ELSE [err |-> "ok", df |-> None, reads |-> {}]

OpenLoadIgnoringRebuild(for_rebuild) == NormalLoad

\* lines 139-188: what open() does once is_open is set
OpenLoad(for_rebuild) ==
    IF for_rebuild THEN [err |-> "ok", df |-> None, reads |-> {}]
    ELSE NormalLoad

Call(op, s, arg, err, ret, reads, writes) ==
    [op |-> op, store |-> s, arg |-> arg, err |-> err, ret |-> ret,
     reads |-> reads, writes |-> writes]

CopiesData(reads) == FALSE

\* line 185: pd.DataFrame(data=data, ..., copy=False) over the array wrapped
\* around the shared buffer: the table shares the buffer's memory
SharesMemory(reads) == "buffer" \in reads

\* lines 132-189
Open(s, for_rebuild) ==
    /\ IF is_open[s]
       THEN /\ call' = Call("open", s, for_rebuild, "AssertionError", FALSE, {}, {})
            /\ UNCHANGED <<is_open, _df, buffer_views>>
       ELSE LET load == OpenLoad(for_rebuild)
            IN /\ is_open' = [is_open EXCEPT ![s] = TRUE]
               /\ _df' = IF load.df = None THEN _df ELSE [_df EXCEPT ![s] = load.df]
               /\ buffer_views' = IF load.df # None /\ SharesMemory(load.reads)
                                  THEN buffer_views \cup {s} ELSE buffer_views
               /\ call' = Call("open", s, for_rebuild, load.err, FALSE, load.reads, {})
    /\ UNCHANGED <<segmentation, tap_ids, set_names, settings, is_changed, disk,
                   data_buffers>>

\* line 255
is_fully_populated(s) ==
    _df[s] # None /\ Len(_df[s][1]) = fully_populated_shape[1]

\* lines 252-255: the property, read by a caller
IsFullyPopulated(s) ==
    /\ IF is_open[s]
       THEN call' = Call("is_fully_populated", s, <<>>, "ok", is_fully_populated(s), {}, {})
       ELSE call' = Call("is_fully_populated", s, <<>>, "AssertionError", FALSE, {}, {})
    /\ UNCHANGED <<segmentation, tap_ids, set_names, settings, is_open, is_changed,
                   _df, disk, data_buffers,
                   buffer_views>>

ConcatDroppingDuplicates(df, new_rows) ==
    df \o SelectSeq(new_rows, LAMBDA row : \A i \in 1..Len(df) : df[i].uid # row.uid)

\* line 268: pd.concat([self._df, new_rows], axis=0)
Concat(df, new_rows) == df \o new_rows

ExtendRejectedUnlessFull(s, new_rows) == Len(new_rows) = 0 \/ ~is_open[s]

\* lines 259-261: the three asserts extend_table starts with
ExtendRejected(s, new_rows) ==
    Len(new_rows) = 0 \/ ~is_open[s] \/ is_fully_populated(s)

\* lines 257-273
ExtendTable(s, new_rows) ==
    /\ IF ExtendRejected(s, new_rows)
       THEN /\ call' = Call("extend_table", s, new_rows, "AssertionError", FALSE, {}, {})
            /\ UNCHANGED <<is_changed, _df, buffer_views>>
       ELSE LET df == IF _df[s] = None THEN new_rows ELSE Concat(_df[s][1], new_rows)
            IN /\ is_changed' = [is_changed EXCEPT ![s] = TRUE]
               /\ _df' = [_df EXCEPT ![s] = Some(df)]
               /\ buffer_views' = buffer_views \ {s}
               /\ call' = Call("extend_table", s, new_rows,
                               IF DuplicatedAny(df) THEN "AssertionError" ELSE "ok",
                               FALSE, {}, {})
    /\ UNCHANGED <<segmentation, tap_ids, set_names, settings, is_open, disk,
                   data_buffers>>

FullyPopulatedFlushWritingStatic(s) ==
    [err |-> "ok", is_changed |-> FALSE,
     disk |-> [disk EXCEPT !.static = Some(AsFloat32(Flatten([i \in 1..Len(_df[s][1]) |->
                                                               _df[s][1][i].values])))],
     writes |-> {"static"}]

\* lines 201-204: flush() of a changed, fully-populated table stops at
\* 'assert False', before the lines that would write the static file
FullyPopulatedFlush(s) ==
    [err |-> "AssertionError", is_changed |-> is_changed[s], disk |-> disk, writes |-> {}]

\* lines 196-236: the outcome of flush(): the exception raised if any, the
\* dirty flag and the files after it, and the files it wrote
FlushOutcome(s) ==
    LET unchanged == [is_changed |-> is_changed[s], disk |-> disk, writes |-> {}]
    IN IF ~is_open[s] THEN [err |-> "AssertionError"] @@ unchanged
       ELSE IF _df[s] = None THEN [err |-> "AttributeError"] @@ unchanged
       ELSE IF DuplicatedAny(_df[s][1]) THEN [err |-> "AssertionError"] @@ unchanged
       ELSE IF ~is_changed[s] THEN [err |-> "ok"] @@ unchanged
       ELSE IF is_fully_populated(s) THEN FullyPopulatedFlush(s)
       ELSE LET dynamic == IF settings.rebuild_tvpb_cache
                           THEN Some(ToFeather(_df[s][1])) ELSE disk.dynamic
                trace == IF settings.trace_tvpb_cache_as_csv
                         THEN Some(ToCsv(_df[s][1])) ELSE disk.trace
            IN [err |-> "ok",
                is_changed |-> is_changed[s] /\ ~settings.rebuild_tvpb_cache,
                disk |-> [disk EXCEPT !.dynamic = dynamic, !.trace = trace],
                writes |-> (IF settings.rebuild_tvpb_cache THEN {"dynamic"} ELSE {})
                           \cup (IF settings.trace_tvpb_cache_as_csv THEN {"trace"} ELSE {})]

\* lines 191-236
Flush(s) ==
    /\ LET flush == FlushOutcome(s)
       IN /\ is_changed' = [is_changed EXCEPT ![s] = flush.is_changed]
          /\ disk' = flush.disk
          /\ call' = Call("flush", s, <<>>, flush.err, FALSE, {}, flush.writes)
    /\ UNCHANGED <<segmentation, tap_ids, set_names, settings, is_open, _df,
                   data_buffers,
                   buffer_views>>

\* lines 238-247: flush(), then is_open = False and _df = None; an exception
\* of flush() leaves close() before the two assignments
Close(s) ==
    /\ LET flush == FlushOutcome(s)
       IN /\ is_changed' = [is_changed EXCEPT ![s] = flush.is_changed]
          /\ disk' = flush.disk
          /\ call' = Call("close", s, <<>>, flush.err, FALSE, {}, flush.writes)
          /\ IF flush.err = "ok"
             THEN /\ is_open' = [is_open EXCEPT ![s] = FALSE]
                  /\ _df' = [_df EXCEPT ![s] = None]
                  /\ buffer_views' = buffer_views \ {s}
             ELSE UNCHANGED <<is_open, _df, buffer_views>>
    /\ UNCHANGED <<segmentation, tap_ids, set_names, settings, data_buffers>>

\* lines 110-129: data.reshape(fully_populated_shape), written as float32
WriteStaticCache(s, data) ==
    /\ IF is_open[s] \/ _df[s] # None \/ is_changed[s]
       THEN /\ call' = Call("write_static_cache", s, data, "AssertionError", FALSE, {}, {})
            /\ UNCHANGED disk
       ELSE IF Len(data) # fully_populated_shape[1] * fully_populated_shape[2]
       THEN /\ call' = Call("write_static_cache", s, data, "ValueError", FALSE, {}, {})
            /\ UNCHANGED disk
       ELSE /\ disk' = [disk EXCEPT !.static =
                           Some(AsFloat32(Flatten(Reshape(data, fully_populated_shape[2]))))]
            /\ call' = Call("write_static_cache", s, data, "ok", FALSE, {}, {"static"})
    /\ UNCHANGED <<segmentation, tap_ids, set_names, settings, is_open, is_changed,
                   _df, data_buffers,
                   buffer_views>>

UnlinkedButStatic == [disk EXCEPT !.dynamic = None, !.trace = None]

\* lines 104-108: the files after the loop over STATIC, DYNAMIC, TRACE
Unlinked == [static |-> None, dynamic |-> None, trace |-> None]

\* lines 100-108
Cleanup(s) ==
    /\ IF settings.rebuild_tvpb_cache
       THEN disk' = Unlinked
       ELSE UNCHANGED disk
    /\ call' = Call("cleanup", s, <<>>, "ok", FALSE, {}, {})
    /\ UNCHANGED <<segmentation, tap_ids, set_names, settings, is_open, is_changed,
                   _df, data_buffers,
                   buffer_views>>

\* an array of n cells holding x
Filled(n, x) == [i \in 1..n |-> x]

\* lines 275-323: the buffer returned.  A shared buffer is
\* multiprocessing.Array(typecode, buffer_size), whose cells are zero; a
\* private one is np.empty() filled with np.nan.
allocate_data_buffer(shared) ==
    LET buffer_size == fully_populated_shape[1] * fully_populated_shape[2]
    IN IF shared THEN Filled(buffer_size, 0) ELSE Filled(buffer_size, NaN)

\* lines 275-323
AllocateDataBuffer(s, shared) ==
    /\ IF is_open[s]
       THEN call' = Call("allocate_data_buffer", s, shared, "AssertionError", None, {}, {})
       ELSE call' = Call("allocate_data_buffer", s, shared, "ok",
                         Some(allocate_data_buffer(shared)), {}, {})
    /\ UNCHANGED <<segmentation, tap_ids, set_names, settings, is_open, is_changed,
                   _df, disk, data_buffers, buffer_views>>

\* lines 340-348: the cells of the buffer after np.copyto(buffer, data) of the
\* static file's cells, which raises unless data has the buffer's size or one
\* cell, or after np.copyto(buffer, np.nan)
load_data_to_buffer(buffer) ==
    IF disk.static = None
    THEN [err |-> "ok", buffer |-> Filled(Len(buffer), NaN), reads |-> {}]
    ELSE LET data == disk.static[1]
         IN IF Len(data) = Len(buffer)
            THEN [err |-> "ok", buffer |-> data, reads |-> {"static"}]
            ELSE IF Len(data) = 1
            THEN [err |-> "ok", buffer |-> Filled(Len(buffer), data[1]), reads |-> {"static"}]
            ELSE [err |-> "ValueError", buffer |-> buffer, reads |-> {"static"}]

\* lines 325-348, called with the registered shared buffer.  The tables that
\* share the buffer's memory show its new cells.
LoadDataToBuffer(s) ==
    /\ data_buffers # None
    /\ IF is_open[s]
       THEN /\ call' = Call("load_data_to_buffer", s, <<>>, "AssertionError", FALSE, {}, {})
            /\ UNCHANGED <<data_buffers, _df>>
       ELSE LET load == load_data_to_buffer(data_buffers[1])
            IN /\ data_buffers' = Some(load.buffer)
               /\ _df' = [t \in Stores |->
                            IF t \in buffer_views THEN WrapData(load.buffer).df ELSE _df[t]]
               /\ call' = Call("load_data_to_buffer", s, <<>>, load.err, FALSE, load.reads,
                               IF load.err = "ok" THEN {"buffer"} ELSE {})
    /\ UNCHANGED <<segmentation, tap_ids, set_names, settings, is_open, is_changed,
                   disk, buffer_views>>

\* lines 249-250: table()
TableRead(s) ==
    /\ call' = Call("table", s, <<>>, "ok", _df[s], {}, {})
    /\ UNCHANGED <<segmentation, tap_ids, set_names, settings, is_open, is_changed,
                   _df, disk, data_buffers, buffer_views>>

----------------------------------------------------------------------------
(* Inputs of the cache store *)

\* The configurations of the store: one tap and no segmentation attribute
\* (one fully-populated row), or one tap and two times of day (two rows).
StoreSegmentations ==
    { <<>>, << [name |-> "tod", values |-> <<"AM", "MD">>] >> }

StoreTapLists == { <<TapPool[1]>> }

Variants == {1, 2}

\* the utilities of a row, different in every column and in every variant:
\* small values, or values of which float32 holds only the even ones
ValueRow(variant) ==
    [j \in 1..num_columns |-> IF variant = 1 THEN 10 + j ELSE Float32Exact + j]

\* the utilities of row u of an array, different in every row as well
ArrayRow(u, variant) ==
    [j \in 1..num_columns |-> ValueRow(variant)[j] + 4 * num_columns * u]

FullArray(variant) ==
    Flatten([i \in 1..fully_populated_shape[1] |-> ArrayRow(i - 1, variant)])

\* an array of another configuration: one row more
ForeignArray == AsFloat32(FullArray(1) \o ValueRow(1))

\* the arrays passed to write_static_cache
DataArrays == { FullArray(v) : v \in Variants } \cup { ForeignArray }

\* the shared buffers found registered
BufferArrays == { AsFloat32(FullArray(2)), ForeignArray }

\* rows keyed by uids of the key space or by the first uid beyond it, n of them
RECURSIVE NewRowsOfLen(_, _)
NewRowsOfLen(n, variant) ==
    IF n = 0 THEN { <<>> }
    ELSE { Append(rows, [uid |-> u, values |-> ValueRow(variant)]) :
              rows \in NewRowsOfLen(n - 1, variant), u \in 0..fully_populated_shape[1] }

\* the rows the table of store s has room for
Room(s) == MaxTableRows - (IF _df[s] = None THEN 0 ELSE Len(_df[s][1]))

\* The dataframes passed to extend_table of store s: up to the rows the table
\* has room for.  The rows added to a store that holds no table carry the
\* utilities of variant 1 and the rows added later those of variant 2, so a
\* uid added twice carries different utilities.
NewRows(s) ==
    UNION { NewRowsOfLen(n, IF _df[s] = None THEN 1 ELSE 2) : n \in 0..Room(s) }

\* a dynamic file holding the same uid twice
CorruptFeather == ToFeather(<< [uid |-> 0, values |-> ValueRow(1)],
                              [uid |-> 0, values |-> ValueRow(2)] >>)

----------------------------------------------------------------------------
(* State after construction *)

\* TVPBCache.__init__, lines 85-87
Constructed ==
    /\ is_open = [s \in Stores |-> FALSE]
    /\ is_changed = [s \in Stores |-> FALSE]
    /\ _df = [s \in Stores |-> None]
    /\ buffer_views = {}

InitUid ==
    /\ segmentation \in Segmentations
    /\ tap_ids \in TapLists
    /\ set_names = SetNames(MaxSets)
    /\ settings = [rebuild_tvpb_cache |-> FALSE, multiprocess |-> FALSE,
                   trace_tvpb_cache_as_csv |-> FALSE]
    /\ disk = [static |-> None, dynamic |-> None, trace |-> None]
    /\ data_buffers = None
    /\ Constructed
    /\ GetUniqueIdsArguments

NextUid == GetUniqueIds

SpecUid == InitUid /\ [][NextUid]_vars

\* One store of one process.  The disk is empty or holds the files of a run of
\* another configuration; a multi-process run has its shared buffer
\* registered or, by an error of the caller, not.
Init ==
    /\ segmentation \in StoreSegmentations
    /\ tap_ids \in StoreTapLists
    /\ set_names = SetNames(MaxSets)
    /\ settings \in [rebuild_tvpb_cache : BOOLEAN, multiprocess : BOOLEAN,
                     trace_tvpb_cache_as_csv : BOOLEAN]
    /\ disk \in { [static |-> None, dynamic |-> None, trace |-> None],
                  [static |-> Some(ForeignArray), dynamic |-> Some(CorruptFeather),
                   trace |-> Some(ToCsv(<<>>))] }
    /\ data_buffers \in IF settings.multiprocess
                        THEN {None} \cup {Some(a) : a \in BufferArrays}
                        ELSE {None}
    /\ Constructed
    /\ call = Call("__init__", 1, <<>>, "ok", FALSE, {}, {})

Next ==
    \E s \in {1} :
        \/ \E for_rebuild \in BOOLEAN : Open(s, for_rebuild)
        \/ IsFullyPopulated(s)
        \/ \E new_rows \in NewRows(s) : ExtendTable(s, new_rows)
        \/ Flush(s)
        \/ Close(s)
        \/ \E data \in DataArrays : WriteStaticCache(s, data)
        \/ Cleanup(s)

Spec == Init /\ [][Next]_vars

\* Two stores of one cache tag in a multi-process run: the shared buffer is
\* registered as allocated, or not registered; the static file is absent, or
\* complete, or of another configuration.  The stores are opened, queried,
\* read, flushed and closed, and the buffer is allocated and loaded.
InitWorkers ==
    /\ segmentation \in StoreSegmentations
    /\ tap_ids \in StoreTapLists
    /\ set_names = SetNames(MaxSets)
    /\ settings \in [rebuild_tvpb_cache : BOOLEAN, multiprocess : {TRUE},
                     trace_tvpb_cache_as_csv : {FALSE}]
    /\ disk \in [static : {None, Some(AsFloat32(FullArray(2))), Some(ForeignArray)},
                 dynamic : {None}, trace : {None}]
    /\ data_buffers \in {None, Some(allocate_data_buffer(TRUE))}
    /\ Constructed
    /\ call = Call("__init__", 1, <<>>, "ok", FALSE, {}, {})

NextWorkers ==
    \E s \in Stores :
        \/ \E for_rebuild \in BOOLEAN : Open(s, for_rebuild)
        \/ IsFullyPopulated(s)
        \/ Flush(s)
        \/ Close(s)
        \/ \E shared \in BOOLEAN : AllocateDataBuffer(s, shared)
        \/ LoadDataToBuffer(s)
        \/ TableRead(s)

SpecWorkers == InitWorkers /\ [][NextWorkers]_vars

\* the uid calculator, with a call on segment combinations to make
InitCombinations ==
    /\ segmentation \in Segmentations
    /\ tap_ids \in TapLists
    /\ set_names = SetNames(MaxSets)
    /\ settings = [rebuild_tvpb_cache |-> FALSE, multiprocess |-> FALSE,
                   trace_tvpb_cache_as_csv |-> FALSE]
    /\ disk = [static |-> None, dynamic |-> None, trace |-> None]
    /\ data_buffers = None
    /\ Constructed
    /\ PendingCombinationCall

NextCombinations ==
    \/ GetOdDataframe
    \/ GetSkimOffset
    \/ EachScalarAttributeCombination

SpecCombinations == InitCombinations /\ [][NextCombinations]_vars

----------------------------------------------------------------------------
(* Properties of the uid calculator, checked under SpecUid *)

Returned == call.op = "get_unique_ids" /\ call.err # "pending"

\* every attribute is given, as a column or as a scalar, with values of its domain
ArgumentsInDomain ==
    \A k \in 1..Len(ordinalizers) :
        LET name == ordinalizers[k].name
        IN IF name \in call.df.columns
           THEN \A r \in 1..Len(call.df.rows) :
                    Has(ordinalizers[k], call.df.rows[r][name])
           ELSE /\ name \in DOMAIN call.scalar_attributes
                /\ Has(ordinalizers[k], call.scalar_attributes[name])

\* the attribute tuple of row r of the call, in canonical order
TupleOf(r) ==
    [k \in 1..Len(ordinalizers) |->
        IF ordinalizers[k].name \in call.df.columns
        THEN call.df.rows[r][ordinalizers[k].name]
        ELSE call.scalar_attributes[ordinalizers[k].name]]

\* the position of a tuple in an enumeration that lists it
Position(tuples, tuple) == CHOOSE i \in 1..Len(tuples) : tuples[i] = tuple

fully_populated_rows == fully_populated_shape[1]

\* C1: get_unique_ids is a bijection from the full Cartesian product (segment
\* combination x origin tap x destination tap) onto 0 .. fully_populated_rows-1.
\* Every uid returned for attribute values of the domain is in that range;
\* rows of one call with equal uids are equal tuples; the uid of a tuple is
\* its position in the enumeration of the product, which lists every tuple
\* once, so tuples of different calls get different uids too; and the call on
\* the whole product returns every integer of the range.
C1_UidBijection ==
    (Returned /\ ArgumentsInDomain) =>
        /\ call.err = "ok"
        /\ LET tuples == FullProduct
           IN \A r \in 1..Len(call.uid) :
                 /\ call.uid[r] \in 0..(fully_populated_rows - 1)
                 /\ call.uid[r] = Position(tuples, TupleOf(r)) - 1
        /\ \A r1, r2 \in 1..Len(call.uid) :
              call.uid[r1] = call.uid[r2] => TupleOf(r1) = TupleOf(r2)
        /\ Len(call.df.rows) = Len(FullProduct) =>
              Range(call.uid) = 0..(fully_populated_rows - 1)

\* the call on the whole product of a configuration with several segment
\* combinations and several taps has returned
C1_Witness ==
    /\ Returned /\ ArgumentsInDomain
    /\ Len(call.df.rows) = Len(FullProduct)
    /\ Len(segmentation) = MaxAttrs
    /\ Len(tap_ids) = MaxTaps
    /\ fully_populated_rows >= 8
    /\ Cardinality(Range(call.uid)) = fully_populated_rows

\* the configured cardinality of the k-th attribute in canonical order
ConfiguredCardinality(k) ==
    IF k <= Len(segmentation) THEN Len(segmentation[k].values) ELSE Len(tap_ids)

\* the ordinal of a value: its position, from 0, among its attribute's values
ConfiguredOrdinal(k, value) ==
    LET values == IF k <= Len(segmentation) THEN segmentation[k].values ELSE tap_ids
    IN (CHOOSE p \in 1..Len(values) : values[p] = value) - 1

\* the place value of the k-th digit: the product of the later cardinalities
RECURSIVE PlaceValue(_)
PlaceValue(k) ==
    IF k >= Len(segmentation) + 2 THEN 1
    ELSE ConfiguredCardinality(k + 1) * PlaceValue(k + 1)

RECURSIVE MixedRadix(_, _)
MixedRadix(tuple, k) ==
    IF k > Len(tuple) THEN 0
    ELSE ConfiguredOrdinal(k, tuple[k]) * PlaceValue(k) + MixedRadix(tuple, k + 1)

TodAmMd == << [name |-> "tod", values |-> <<"AM", "MD">>] >>

\* C2: the uid is the mixed-radix number whose digits are the ordinals of the
\* attribute values in canonical order (segmentation attributes in
\* configuration order, then btap, then atap) and whose radices are the
\* attributes' cardinalities; with segmentation {tod: [AM, MD]} and taps
\* [10, 20] there are 8 fully-populated rows, (AM, 10, 10) has uid 0 and
\* (MD, 20, 20) has uid 7.
C2_MixedRadix ==
    (Returned /\ ArgumentsInDomain) =>
        /\ \A r \in 1..Len(call.uid) : call.uid[r] = MixedRadix(TupleOf(r), 1)
        /\ (segmentation = TodAmMd /\ tap_ids = <<10, 20>>) =>
              /\ fully_populated_rows = 8
              /\ \A r \in 1..Len(call.uid) :
                    /\ TupleOf(r) = <<"AM", 10, 10>> => call.uid[r] = 0
                    /\ TupleOf(r) = <<"MD", 20, 20>> => call.uid[r] = 7

\* the scenario's second call has returned
C2_Witness ==
    /\ Returned
    /\ segmentation = TodAmMd /\ tap_ids = <<10, 20>>
    /\ call.scalar_attributes = [tod |-> "MD"]
    /\ call.df.rows = << [btap |-> 20, atap |-> 20] >>
    /\ call.uid = <<7>>

----------------------------------------------------------------------------
(* Properties of the cache store, checked under Spec *)

\* the table of store s, empty when the store holds none
Table(s) == IF _df[s] = None THEN <<>> ELSE _df[s][1]

TableAfter(s) == IF _df'[s] = None THEN <<>> ELSE _df'[s][1]

\* the table's rows keyed u
RowsKeyed(df, u) == SelectSeq(df, LAMBDA row : row.uid = u)

\* the cell in column j of the row at row offset u of a flat array
CellAt(data, u, j) == data[u * num_columns + j]

\* the table holds, for every uid of the key space, exactly the row found at
\* that row offset of the flat array, and no other row
HoldsRowsOf(df, data) ==
    /\ Len(df) = fully_populated_rows
    /\ \A u \in 0..(fully_populated_rows - 1) :
          /\ Len(RowsKeyed(df, u)) = 1
          /\ \A j \in 1..num_columns : RowsKeyed(df, u)[1].values[j] = CellAt(data, u, j)

\* C3: static round trip.  write_static_cache puts the float32 value of the
\* cell in column j of row u of a fully-populated array at row offset u,
\* column j of the static file, and a normal, non-shared open of a store whose
\* static file has the fully-populated size yields, for every uid u, exactly
\* the row at row offset u of the file: the row that was written for u.
C3_StaticRoundTrip ==
    /\ (call.op = "write_static_cache" /\ call.err = "ok") =>
          /\ disk.static # None
          /\ Len(disk.static[1]) = fully_populated_rows * num_columns
          /\ \A u \in 0..(fully_populated_rows - 1), j \in 1..num_columns :
                CellAt(disk.static[1], u, j) = Float32(CellAt(call.arg, u, j))
    /\ (/\ call.op = "open" /\ ~call.arg /\ call.reads # {}
        /\ ~settings.multiprocess
        /\ disk.static # None
        /\ Len(disk.static[1]) = fully_populated_rows * num_columns) =>
          /\ call.err = "ok"
          /\ HoldsRowsOf(Table(call.store), disk.static[1])

\* a store opened from a static file written from an array that float32 does
\* not hold exactly, of a configuration with several rows
C3_Witness ==
    /\ call.op = "open" /\ call.err = "ok" /\ call.reads = {"static"}
    /\ fully_populated_rows > 1
    /\ \E j \in 1..num_columns :
          /\ Float32(ArrayRow(1, 2)[j]) # ArrayRow(1, 2)[j]
          /\ RowsKeyed(Table(1), 1)[1].values[j] = Float32(ArrayRow(1, 2)[j])

\* the source the fixed priority prescribes
PrescribedSource ==
    IF settings.multiprocess THEN "buffer"
    ELSE IF disk.static # None THEN "static"
    ELSE IF disk.dynamic # None THEN "dynamic"
    ELSE "none"

\* C4: open() in normal mode reads no source but the one the priority
\* prescribes (the shared buffer when multi-process, else the static file if
\* it exists, else the dynamic file if it exists, else nothing), and when it
\* succeeds its table is exactly that source's content, or no table when
\* there is no source.
C4_OpenPriority ==
    (call.op = "open" /\ ~call.arg) =>
        /\ call.reads \subseteq {PrescribedSource}
        /\ call.err = "ok" =>
              /\ call.reads = {PrescribedSource} \ {"none"}
              /\ PrescribedSource = "buffer" =>
                    HoldsRowsOf(Table(call.store), data_buffers[1])
              /\ PrescribedSource = "static" =>
                    HoldsRowsOf(Table(call.store), disk.static[1])
              /\ PrescribedSource = "dynamic" =>
                    /\ _df[call.store] # None
                    /\ \A i \in 1..Len(disk.dynamic[1]) :
                          /\ Table(call.store)[i].uid = disk.dynamic[1][i][1]
                          /\ \A j \in 1..num_columns :
                                Table(call.store)[i].values[j] = disk.dynamic[1][i][j + 1]
                    /\ Len(Table(call.store)) = Len(disk.dynamic[1])
              /\ PrescribedSource = "none" => _df[call.store] = None

\* a single-process open that took the static file although a dynamic file exists
C4_Witness ==
    /\ call.op = "open" /\ ~call.arg /\ call.err = "ok"
    /\ ~settings.multiprocess
    /\ disk.static # None /\ disk.dynamic # None
    /\ call.reads = {"static"}
    /\ _df[1] # None

\* the distinct uids of the table of store s
Uids(s) == Range(Index(Table(s)))

\* C5: is_fully_populated is true exactly when the number of distinct uids in
\* the open table equals fully_populated_rows, and so is false for a store
\* that has no table.
C5_FullyPopulatedIffAllUids ==
    (call.op = "is_fully_populated" /\ call.err = "ok") =>
        (call.ret <=> Cardinality(Uids(call.store)) = fully_populated_rows)

HasRepeatedUid(df) == \E i, j \in 1..Len(df) : i # j /\ df[i].uid = df[j].uid

SharesUid(df, new_rows) ==
    \E i \in 1..Len(df), j \in 1..Len(new_rows) : df[i].uid = new_rows[j].uid

\* C6: extend_table raises whenever new_rows repeats a uid or carries a uid
\* the table already holds; and the rows the table held before the call are
\* still its first rows after it, unchanged (rows are only appended).
C6_ExtendRejectsDuplicates ==
    [][call'.op = "extend_table" =>
          /\ (HasRepeatedUid(call'.arg) \/ SharesUid(Table(call'.store), call'.arg))
                => call'.err # "ok"
          /\ Len(TableAfter(call'.store)) >= Len(Table(call'.store))
          /\ SubSeq(TableAfter(call'.store), 1, Len(Table(call'.store)))
                = Table(call'.store)]_vars

\* an extend with one row whose uid the table held already has been rejected
C6_Witness ==
    /\ call.op = "extend_table" /\ call.err = "AssertionError"
    /\ is_open[1]
    /\ Len(call.arg) = 1
    /\ Len(Table(1)) = 2
    /\ Table(1)[1].uid = call.arg[1].uid
    /\ Table(1)[1].values # call.arg[1].values
    /\ Table(1)[2] = call.arg[1]

\* C7: flush() on an open store that is not dirty raises nothing, writes no
\* file and changes neither the table nor the flags, whether the store holds
\* a table or none.
C7_CleanFlushIsNoOp ==
    [][(call'.op = "flush" /\ is_open[call'.store] /\ ~is_changed[call'.store]) =>
          /\ call'.err = "ok"
          /\ call'.writes = {}
          /\ UNCHANGED <<disk, _df, is_open, is_changed>>]_vars

\* C8: flush() on an open, dirty, fully-populated table writes the static
\* file with the row keyed u at row offset u and clears the dirty flag.
C8_DirtyFullFlushWritesStatic ==
    [][(/\ call'.op = "flush"
        /\ is_open[call'.store] /\ is_changed[call'.store]
        /\ is_fully_populated(call'.store)) =>
          /\ call'.err = "ok"
          /\ ~is_changed'[call'.store]
          /\ disk'.static # None
          /\ HoldsRowsOf(Table(call'.store), disk'.static[1])]_vars

\* C9: flush() on an open, dirty, partially populated table with rebuild
\* disabled leaves the dynamic file as it is and raises nothing.
C9_SuppressedFlush ==
    [][(/\ call'.op = "flush"
        /\ is_open[call'.store] /\ is_changed[call'.store]
        /\ _df[call'.store] # None /\ ~is_fully_populated(call'.store)
        /\ ~settings.rebuild_tvpb_cache) =>
          /\ call'.err = "ok"
          /\ "dynamic" \notin call'.writes
          /\ disk'.dynamic = disk.dynamic]_vars

\* C10: close() on an open store leaves it closed and without a table.
C10_CloseReleases ==
    [][(call'.op = "close" /\ is_open[call'.store]) =>
          /\ ~is_open'[call'.store]
          /\ _df'[call'.store] = None]_vars

\* C12: open() in rebuild mode reads neither the shared buffer nor the static
\* nor the dynamic file, whichever exist, and on a closed store it succeeds
\* and leaves the store open without a table, so is_fully_populated is false.
C12_RebuildOpenStartsEmpty ==
    [][(call'.op = "open" /\ call'.arg) =>
          /\ call'.reads = {}
          /\ ~is_open[call'.store] =>
                /\ call'.err = "ok"
                /\ is_open'[call'.store]
                /\ _df'[call'.store] = None
                /\ ~(_df'[call'.store] # None
                     /\ Len(TableAfter(call'.store)) = fully_populated_rows)]_vars

\* a store opened in rebuild mode while the static file, the dynamic file and,
\* in a multi-process run, the shared buffer exist
C12_Witness ==
    /\ call.op = "open" /\ call.arg /\ call.err = "ok"
    /\ disk.static # None /\ disk.dynamic # None
    /\ settings.multiprocess /\ data_buffers # None
    /\ is_open[1] /\ _df[1] = None

\* the table and the file hold the same uids, each once, with the same values
SameRows(df, file) ==
    /\ Range(Index(df)) = {file[i][1] : i \in 1..Len(file)}
    /\ Len(df) = Len(file)
    /\ \A i \in 1..Len(df) : \E k \in 1..Len(file) :
          file[k] = <<df[i].uid>> \o df[i].values

\* C13: with rebuild enabled, flush() and close() of an open, dirty, partially
\* populated table write the dynamic file, the uid first in every record, and
\* clear the dirty flag; and a normal-mode single-process open that finds no
\* static file loads from such a dynamic file (its uids are distinct) a table
\* with the same uids and the same row of values for each uid.
C13_DynamicRoundTrip ==
    [][/\ (/\ call'.op \in {"flush", "close"}
           /\ settings.rebuild_tvpb_cache
           /\ is_open[call'.store] /\ is_changed[call'.store]
           /\ _df[call'.store] # None /\ ~is_fully_populated(call'.store)) =>
             /\ call'.err = "ok"
             /\ "dynamic" \in call'.writes
             /\ ~is_changed'[call'.store]
             /\ disk'.dynamic # None
             /\ SameRows(Table(call'.store), disk'.dynamic[1])
       /\ (/\ call'.op = "open" /\ ~call'.arg /\ ~is_open[call'.store]
           /\ ~settings.multiprocess
           /\ disk.static = None /\ disk.dynamic # None
           /\ ~DuplicatedAny(ReadFeather(disk.dynamic[1]))) =>
             /\ call'.err = "ok"
             /\ SameRows(TableAfter(call'.store), disk.dynamic[1])]_vars

\* C14: extend_table raises whenever new_rows carries a uid outside
\* 0 .. fully_populated_rows-1, and the table of an open store holds no such uid.
C14_ExtendRejectsOutOfRange ==
    [][/\ (/\ call'.op = "extend_table"
           /\ \E i \in 1..Len(call'.arg) :
                 call'.arg[i].uid \notin 0..(fully_populated_rows - 1)) =>
             call'.err # "ok"
       /\ \A t \in Stores : is_open'[t] =>
             \A i \in 1..Len(TableAfter(t)) :
                TableAfter(t)[i].uid \in 0..(fully_populated_rows - 1)]_vars

\* C18: cleanup() with rebuild configured leaves neither the static nor the
\* dynamic nor the diagnostic file, and a normal-mode single-process open()
\* of a closed store that follows it reads nothing and leaves no table.
C18_CleanupDeletesAll ==
    [][/\ (call'.op = "cleanup" /\ settings.rebuild_tvpb_cache) =>
             /\ call'.err = "ok"
             /\ disk'.static = None /\ disk'.dynamic = None /\ disk'.trace = None
       /\ (/\ call.op = "cleanup" /\ settings.rebuild_tvpb_cache
           /\ call'.op = "open" /\ ~call'.arg /\ ~settings.multiprocess
           /\ ~is_open[call'.store]) =>
             /\ call'.err = "ok"
             /\ call'.reads = {}
             /\ is_open'[call'.store] /\ _df'[call'.store] = None]_vars

\* cleanup() with rebuild configured has run on a store that holds the clean
\* table it loaded from a file, and no file is left
C18_Witness ==
    /\ call.op = "cleanup" /\ settings.rebuild_tvpb_cache
    /\ is_open[1] /\ _df[1] # None /\ ~is_changed[1]
    /\ disk = [static |-> None, dynamic |-> None, trace |-> None]

----------------------------------------------------------------------------
(* Further properties of the uid calculator *)

\* some attribute value the call is given, in a column or as the scalar of an
\* attribute that has no column, is outside the attribute's configured domain
GivenValueOutsideDomain ==
    \E k \in 1..Len(ordinalizers) :
        LET name == ordinalizers[k].name
        IN IF name \in call.df.columns
           THEN \E r \in 1..Len(call.df.rows) :
                    ~Has(ordinalizers[k], call.df.rows[r][name])
           ELSE /\ name \in DOMAIN call.scalar_attributes
                /\ ~Has(ordinalizers[k], call.scalar_attributes[name])

\* C15: get_unique_ids raises, and returns no uid, whenever a value it is given
\* for an attribute, as a column value or as a scalar attribute, is not in the
\* attribute's configured domain (segment values, tap ids).
C15_UnknownValueFails ==
    (Returned /\ GivenValueOutsideDomain) =>
        /\ call.err # "ok"
        /\ call.uid = <<>>

\* the names of the segmentation attributes
SegmentNames == {segmentation[i].name : i \in 1..Len(segmentation)}

\* the segment combinations: one value of its domain for every attribute
SegmentCombinations ==
    {c \in [SegmentNames -> UNION {Range(segmentation[i].values) : i \in 1..Len(segmentation)}] :
        \A i \in 1..Len(segmentation) :
            c[segmentation[i].name] \in Range(segmentation[i].values)}

\* the ordinal of a tap: its position, from 0, in tap_ids
TapOrdinal(tap) == (CHOOSE p \in 1..Len(tap_ids) : tap_ids[p] = tap) - 1

\* C16: for every segment combination s, get_od_dataframe(s) returns every
\* origin-destination pair once, and its uids are the contiguous block
\* offset*T*T .. offset*T*T + T*T - 1 in ascending order, where offset is
\* get_skim_offset(s) and T the number of taps: the uid of (btap, atap) is
\* offset*T*T + ord(btap)*T + ord(atap); the offset is below the number of
\* segment combinations, so the block lies in the fully-populated buffer.
C16_SegmentBlock ==
    LET T == Len(tap_ids)
    IN /\ (/\ call.op = "get_od_dataframe" /\ call.err # "pending"
           /\ call.scalar_attributes \in SegmentCombinations) =>
             LET offset == get_skim_offset(call.scalar_attributes).offset
             IN /\ call.err = "ok"
                /\ Len(call.index) = T * T
                /\ {<<call.rows[i].btap, call.rows[i].atap>> : i \in 1..(T * T)}
                      = Range(tap_ids) \X Range(tap_ids)
                /\ \A i \in 1..(T * T) :
                      /\ call.index[i] = offset * T * T + i - 1
                      /\ call.index[i] = offset * T * T
                                         + TapOrdinal(call.rows[i].btap) * T
                                         + TapOrdinal(call.rows[i].atap)
                      /\ call.index[i] \in 0..(fully_populated_rows - 1)
       /\ (/\ call.op = "get_skim_offset" /\ call.err # "pending"
           /\ call.scalar_attributes \in SegmentCombinations) =>
             /\ call.err = "ok"
             /\ call.offset \in 0..(Len(attribute_combination_tuples) - 1)

\* the dataframe of a later segment combination of a configuration with
\* several attributes and several taps has been returned
C16_Witness ==
    /\ call.op = "get_od_dataframe" /\ call.err = "ok"
    /\ Len(segmentation) = MaxAttrs /\ Len(tap_ids) = MaxTaps /\ MaxTaps > 1
    /\ call.index[1] >= 2 * Len(tap_ids) * Len(tap_ids)
    /\ call.index[Len(call.index)] = call.index[1] + Len(tap_ids) * Len(tap_ids) - 1

\* C17: each_scalar_attribute_combination yields the same finite sequence on
\* every call; the sequence lists every segment combination exactly once, in
\* the order of the uid composition: the k-th combination yielded (from 0) has
\* get_skim_offset k, and its origin-destination block starts at uid k*T*T.
C17_CombinationsInUidOrder ==
    (call.op = "each_scalar_attribute_combination" /\ call.err = "ok") =>
        /\ call.previous # None => call.yielded = call.previous[1]
        /\ IsInjective(call.yielded)
        /\ Range(call.yielded) = SegmentCombinations
        /\ \A k \in 1..Len(call.yielded) :
              /\ get_skim_offset(call.yielded[k]) = [err |-> "ok", offset |-> k - 1]
              /\ get_od_dataframe(call.yielded[k]).index[1]
                    = (k - 1) * Len(tap_ids) * Len(tap_ids)

\* the second call on a configuration with several attributes of several
\* values has been iterated to its end
C17_Witness ==
    /\ call.op = "each_scalar_attribute_combination" /\ call.err = "ok"
    /\ call.previous # None
    /\ Len(segmentation) = MaxAttrs /\ MaxAttrs > 1
    /\ Len(call.yielded) >= 4

----------------------------------------------------------------------------
(* Properties of several stores and of the shared buffer, checked under
   SpecWorkers *)

\* C11: at most one store of the cache tag is open at a time: while a store
\* of the tag is open, every open() of a store of that tag raises and changes
\* nothing.
C11_SingleOpenPerTag ==
    [][(call'.op = "open" /\ \E t \in Stores : is_open[t]) =>
          /\ call'.err # "ok"
          /\ UNCHANGED <<is_open, _df>>]_vars

\* C19: every buffer allocate_data_buffer returns, private or shared, has
\* rows x columns cells of the fully-populated shape, and every cell is NaN.
C19_AllocatedBufferIsNaN ==
    (call.op = "allocate_data_buffer" /\ call.err = "ok") =>
        /\ Len(call.ret[1]) = fully_populated_rows * num_columns
        /\ \A i \in 1..Len(call.ret[1]) : call.ret[1][i] = NaN

\* C20: in a multi-process run every successful normal-mode open() takes the
\* shared buffer and nothing else, without copying it; every table so opened
\* holds for every uid u the row at row offset u of the buffer as it is now,
\* whenever the store was opened and whenever the buffer was loaded, so all
\* such tables, and what table() returns for them, agree.
C20_WorkersShareBuffer ==
    /\ (call.op = "open" /\ ~call.arg /\ call.err = "ok" /\ settings.multiprocess) =>
          /\ call.reads = {"buffer"}
          /\ call.store \in buffer_views
    /\ \A s \in buffer_views :
          /\ is_open[s] /\ data_buffers # None
          /\ HoldsRowsOf(Table(s), data_buffers[1])
          /\ Index(Table(s)) = [i \in 1..fully_populated_rows |-> i - 1]
    /\ \A s, t \in buffer_views : _df[s] = _df[t]
    /\ (call.op = "table" /\ call.store \in buffer_views) =>
          HoldsRowsOf(call.ret[1], data_buffers[1])

\* both stores are open on the shared buffer, which holds the rows of the
\* static file, and the first store's table has been read
C20_Witness ==
    /\ call.op = "table" /\ call.store = 1
    /\ buffer_views = Stores
    /\ fully_populated_rows > 1
    /\ disk.static # None /\ data_buffers[1] = disk.static[1]
    /\ \A j \in 1..num_columns :
          call.ret[1][2].values[j] = Float32(ArrayRow(1, 2)[j])

----------------------------------------------------------------------------
(* Properties of the table and the files over sequences of calls, checked
   under Spec *)

C22_StaticFileNotModified ==
    [][call'.op \in {"is_fully_populated", "extend_table", "flush", "close"} =>
          disk'.static = disk.static]_vars

\* a two-row table opened from the static file, on which an extend has been
\* rejected
C22_Witness ==
    /\ call.op = "extend_table" /\ call.err = "AssertionError"
    /\ ~settings.multiprocess
    /\ fully_populated_rows = 2
    /\ is_open[1] /\ _df[1] # None /\ disk.static # None
    /\ Len(Table(1)) = 2 /\ HoldsRowsOf(Table(1), disk.static[1])
    /\ Table(1)[2].values # Table(1)[1].values

C24_WorkersNeverWrite ==
    [][/\ (call'.op = "open" /\ ~call'.arg /\ call'.err = "ok" /\ settings.multiprocess) =>
             /\ call'.store \in buffer_views'
             /\ _df'[call'.store] # None
             /\ Len(TableAfter(call'.store)) = fully_populated_rows
       /\ \A s \in buffer_views :
             /\ settings.multiprocess /\ is_open[s] /\ is_fully_populated(s)
             /\ (call'.op = "extend_table" /\ call'.store = s) =>
                   /\ call'.err # "ok"
                   /\ _df'[s] = _df[s]
             /\ (call'.op \in {"flush", "close"} /\ call'.store = s) =>
                   /\ call'.writes \cap {"static", "dynamic"} = {}
                   /\ disk'.static = disk.static
                   /\ disk'.dynamic = disk.dynamic]_vars

\* an extend with a row has been rejected on a store opened over the shared
\* buffer of a multi-process run with rebuild configured
C24_Witness ==
    /\ call.op = "extend_table" /\ call.err = "AssertionError"
    /\ Len(call.arg) > 0
    /\ settings.multiprocess /\ settings.rebuild_tvpb_cache
    /\ 1 \in buffer_views
    /\ HoldsRowsOf(Table(1), data_buffers[1])

\* C25: whenever close() returns without raising, the dirty flag of the store
\* is false, so no pending change survives a close.
C25_CloseClearsDirty ==
    [][(call'.op = "close" /\ call'.err = "ok") => ~is_changed'[call'.store]]_vars

\* C26: an open() of a closed store that raises while loading (duplicate uids
\* in the dynamic file, a static file or shared buffer of another row count,
\* no registered shared buffer) leaves the store closed and without a table,
\* the state in which the next open() is not a double open.
C26_FailedOpenLeavesClosed ==
    [][(call'.op = "open" /\ ~is_open[call'.store] /\ call'.err # "ok") =>
          /\ ~is_open'[call'.store]
          /\ _df'[call'.store] = None]_vars

====
